---- MODULE Spec2Model ----
(***************************************************************************)
(* The OTP issuance-and-verification core of server/index.js (version      *)
(* 5.0.0, lines 1-299): POST /api/subscribe ("issue") and POST /api/verify *)
(* ("confirm") running as concurrent request handlers against the two      *)
(* PostgreSQL tables subscribers and pending_verifications.                *)
(*                                                                         *)
(* Every await of a handler is an interleaving point, so each handler is   *)
(* one action per awaited call.  The database runs at READ COMMITTED (the  *)
(* pg default): a statement sees the committed rows, the writes of the     *)
(* /api/verify transaction are buffered in the request until COMMIT, and a *)
(* statement that would write a row another open transaction has written   *)
(* waits for that transaction to end.  One clock serves as Date.now() and  *)
(* as NOW().  The created_at columns are never read by the code and are    *)
(* left out.                                                               *)
(***************************************************************************)
EXTENDS Integers, Sequences, FiniteSets, TLC

\* ---------------------------------------------------------------- bounds
NumProcs      == 2   \* request handlers that can be in flight together
MaxReqs       == 3   \* requests that reach the store in one behaviour of Spec
MaxSerialReqs == 4   \* requests that reach the store in one behaviour of SerialSpec
MaxTicks      == 2   \* clock advances in one behaviour
NumClients    == 2   \* client addresses that send requests
MaxActive     == 2   \* rate-limit windows (bucket, client) open at once
MaxOver       == 1   \* hits a window records beyond its max
MaxGateTicks  == 4   \* clock advances in one behaviour of LimiterSpec
MaxGateReqs   == 2   \* requests that reach the store in one behaviour of GateSpec
NumGateClients == 1  \* clients that send requests in one behaviour of GateSpec
MaxSpelledReqs == 3  \* requests that reach the store in one behaviour of SpelledSpec
MaxMailReqs   == 2   \* requests that reach the store in one behaviour of MailSpec
MaxLiveReqs   == 2   \* requests that reach the store in one behaviour of LiveSpec

Procs == 1..NumProcs

\* ------------------------------------------------------------ rate limiters
\* The three rateLimit(...) instances and their options.
Buckets == {"api", "subscribe", "verify"}

Clients == 1..NumClients

\* windowMs
WindowMs(b) ==
    CASE b = "api"       -> 15 * 60 * 1000
      [] b = "subscribe" -> 60 * 60 * 1000
      [] b = "verify"    -> 15 * 60 * 1000

\* max
MaxHits(b) ==
    CASE b = "api"       -> 100
      [] b = "subscribe" -> 5
      [] b = "verify"    -> 10

\* ------------------------------------------------------- program constants
OtpTtlMs     == 15 * 60 * 1000     \* expiresAt = Date.now() + 15 * 60 * 1000
RandomIntMin == 100000             \* crypto.randomInt(100000, 999999)
RandomIntMax == 999999
OtpLength    == 6                  \* otp.length !== 6
DeliveryTimeoutMs == 10000         \* axios.post(..., { ..., timeout: 10000 })

\* The clock is observed at the instants 0, T, T + 1, 2T + 1, ... (T the
\* validity window): a record issued at 0 is met exactly at its expires_at and
\* one millisecond past it.
TickStep(k) == IF k % 2 = 0 THEN OtpTtlMs ELSE 1

\* ------------------------------------------------------------ JS values
\* A request-body field: a string (a sequence of characters) or not a string.
Str(s)   == [type |-> "string", str |-> s]
NotAStr  == [type |-> "undefined", str |-> <<>>]

Whitespace == {" "}

ToLowerChar(c) == CASE c = "A" -> "a" [] c = "B" -> "b" [] c = "X" -> "x" [] OTHER -> c

ToLowerCase(s) == [i \in 1..Len(s) |-> ToLowerChar(s[i])]

RECURSIVE TrimStart(_)
TrimStart(s) ==
    IF s # <<>> /\ Head(s) \in Whitespace THEN TrimStart(Tail(s)) ELSE s

RECURSIVE TrimEnd(_)
TrimEnd(s) ==
    IF s # <<>> /\ s[Len(s)] \in Whitespace
    THEN TrimEnd(SubSeq(s, 1, Len(s) - 1)) ELSE s

Trim(s) == TrimEnd(TrimStart(s))

\* /^[^\s@]+@[^\s@]+\.[^\s@]+$/ : no whitespace, exactly one "@" with a
\* character before it, and after it a "." that has a character on each side.
EmailRegexTest(s) ==
    /\ \A k \in 1..Len(s) : s[k] \notin Whitespace
    /\ \E i \in 2..Len(s) :
          /\ s[i] = "@"
          /\ \A k \in 1..Len(s) : s[k] = "@" => k = i
          /\ \E j \in (i + 2)..(Len(s) - 1) : s[j] = "."

NoEmail == <<>>

\* A validation that trims and matches the address without lowercasing it.
validateEmailNoLowerCase(email) ==
    IF email.type # "string" THEN NoEmail
    ELSE LET normalized == Trim(email.str)
         IN  IF EmailRegexTest(normalized) THEN normalized ELSE NoEmail

\* validateEmail: null (NoEmail) or the lowercased, trimmed address.
validateEmail(email) ==
    IF email.type # "string" THEN NoEmail
    ELSE LET normalized == Trim(ToLowerCase(email.str))
         IN  IF EmailRegexTest(normalized) THEN normalized ELSE NoEmail

\* ------------------------------------------------------------ secret codec
Digits == <<"0", "1", "2", "3", "4", "5", "6", "7", "8", "9">>

RECURSIVE NumToString(_)
NumToString(n) ==
    IF n < 10 THEN <<Digits[n + 1]>>
    ELSE Append(NumToString(n \div 10), Digits[(n % 10) + 1])

\* The integers the model lets the entropy source produce; crypto.randomInt
\* keeps those in [min, max).
EntropySample == {99999, 100000, 999998, 999999}

randomInt(min, max) == {n \in EntropySample : min <= n /\ n < max}

\* The salts the model lets bcrypt draw.
Salts == {1}

\* bcrypt.hash(otp, 10): a salted one-way image of the string.
bcryptHash(otp, salt) == [salt |-> salt, digest |-> otp]

\* A comparison that looks at the length of the code alone.
bcryptCompareLength(otp, hash) == Len(hash.digest) = Len(otp)

\* bcrypt.compare(otp, hash)
bcryptCompare(otp, hash) == hash.digest = otp

\* ------------------------------------------------------------ request inputs
\* Spellings of two addresses, a malformed address and a non-string.
EmailInputs ==
    { Str(<<"a", "@", "b", ".", "c">>),
      Str(<<" ", "A", "@", "B", ".", "c", " ">>),
      Str(<<"x", "@", "b", ".", "c">>),
      Str(<<"a", "@", "b">>),
      NotAStr }

\* Codes a client can submit: every code the service can issue, a string of
\* five digits and a non-string.
OtpInputs ==
    { Str(NumToString(n)) : n \in randomInt(RandomIntMin, RandomIntMax) }
        \cup { Str(NumToString(99999)), NotAStr }

\* ------------------------------------------------------------------- state
VARIABLES
    pending,       \* table pending_verifications: rows [email, otp_hash, expires_at]
    subscribers,   \* table subscribers: rows [id, email]
    idSeq,         \* the SERIAL sequence behind subscribers.id
    now,           \* the clock
    ticks,         \* clock advances so far
    started,       \* requests that have reached the store so far
    req,           \* per handler slot: the request in flight and its locals
    last,          \* ghost: the response sent last, when its request ran alone
    verified,      \* ghost: the pending rows answered 'Verification successful'
    limiter,       \* the stores of the three rate limiters: per bucket and client
    served,        \* ghost: the request a rate limiter saw last and what it decided
    reply,         \* ghost: how the request that arrived last was turned away
    env,           \* process.env: RECAPTCHA_SECRET_KEY set or not, NODE_ENV
    captcha,       \* ghost: the last call of verifyRecaptcha and what it returned
    pool,          \* the connection pool: clients checked out, transactions open
    mail           \* ghost: the mails the provider has accepted, in this order

vars == <<pending, subscribers, idSeq, now, ticks, started, req, last, verified,
         limiter, served, reply, env, captcha, pool, mail>>

NoHash == [salt |-> 0, digest |-> <<>>]

\* No response to remember: none sent yet, or its request overlapped another.
NoEntry ==
    [op |-> "none", email |-> NoEmail, otp |-> <<>>, resp |-> "none",
     expiresAt |-> 0, pre |-> {}]

\* What a request that runs alone remembers of its arrival: the time, the two
\* tables as it found them and the response sent just before.
NoGhost == [alone |-> FALSE, t0 |-> 0, pre |-> {}, preSub |-> {}, follows |-> NoEntry]

\* A handler slot with no request in flight.
Idle ==
    [pc |-> "idle", op |-> "none", email |-> NoEmail, otp |-> <<>>,
     otpHash |-> NoHash, expiresAt |-> 0, delRows |-> {}, insRows |-> {},
     g |-> NoGhost]

InFlight(q) == req[q].pc # "idle"

PendingOf(tbl, e) == {r \in tbl : r.email = e}

SubscribersOf(tbl, e) == {r \in tbl : r.email = e}

\* SELECT 1 FROM subscribers WHERE email = $1 ... rowCount > 0
isSubscribed(e) == SubscribersOf(subscribers, e) # {}

\* What the handlers leave alone: the rate limiters and the environment.
gateVars == <<limiter, served, env, captcha, mail>>

\* ------------------------------------------------------ connection pool
\* new Pool(...): no client checked out, no transaction open.
NoneHeld == [checkedOut |-> 0, openTx |-> 0]

\* const client = await pool.connect()
Connect(pl) == [pl EXCEPT !.checkedOut = @ + 1]

\* await client.query('BEGIN')
Begin(pl) == [pl EXCEPT !.openTx = @ + 1]

\* await client.query('COMMIT') or await client.query('ROLLBACK')
EndTx(pl) == [pl EXCEPT !.openTx = @ - 1]

\* A handler that answers without giving its client back.
ReleaseNothing(pl) == pl

\* finally { client.release() }
Release(pl) == [pl EXCEPT !.checkedOut = @ - 1]

\* A limiter store with no hits on record.
NoWindow == [totalHits |-> 0, resetTime |-> 0]

NoServed == [bucket |-> "none", client |-> 0]

\* ---------------------------------------------------------- verifyRecaptcha
\* process.env as verifyRecaptcha reads it.
Envs == [secretKey : BOOLEAN, nodeEnv : {"production", "development", "undefined"}]

\* recaptchaToken of the request body: the marker of the test mode, another
\* string, or none.
Tokens == {"test-token", "03AGdBq24", "undefined"}

\* A score of the provider, in tenths, or no score in the answer.
NoScore == [defined |-> FALSE, tenths |-> 0]
Scores == {NoScore} \cup [defined : {TRUE}, tenths : {0, 4, 5, 9}]

\* score >= 0.5, in tenths
ScoreThreshold == 5

\* What axios.post(siteverify) comes to: it rejects, or resolves with
\* response.data.success (true, false or missing) and response.data.score.
ProviderError == [error |-> TRUE, success |-> "undefined", score |-> NoScore]
ProviderOutcomes ==
    {ProviderError}
        \cup [error : {FALSE}, success : {"true", "false", "undefined"}, score : Scores]

\* !v is false
Truthy(v) == v = "true"

\* a && b, for b a boolean
JsAnd(a, b) == IF Truthy(a) THEN (IF b THEN "true" ELSE "false") ELSE a

\* A check that takes the marker of the test mode in every NODE_ENV.
verifyRecaptchaAnyEnv(e, token, out) ==
    IF ~e.secretKey THEN [called |-> FALSE, result |-> "true"]
    ELSE IF token = "test-token" THEN [called |-> FALSE, result |-> "true"]
    ELSE IF out.error THEN [called |-> TRUE, result |-> "false"]
    ELSE [called |-> TRUE,
          result |-> JsAnd(out.success,
                           ~out.score.defined \/ out.score.tenths >= ScoreThreshold)]

\* verifyRecaptcha(token): the value it resolves to, and whether it has called
\* the provider.
verifyRecaptcha(e, token, out) ==
    IF ~e.secretKey THEN [called |-> FALSE, result |-> "true"]
    ELSE IF e.nodeEnv # "production" /\ token = "test-token"
    THEN [called |-> FALSE, result |-> "true"]
    ELSE IF out.error THEN [called |-> TRUE, result |-> "false"]
    ELSE [called |-> TRUE,
          result |-> JsAnd(out.success,
                           ~out.score.defined \/ out.score.tenths >= ScoreThreshold)]

NoCaptcha == [token |-> "none", outcome |-> ProviderError, called |-> FALSE, result |-> "none"]

\* NODE_ENV === 'production' with RECAPTCHA_SECRET_KEY set: what verifyRecaptcha
\* returns is decided by the provider alone.
ProductionEnv == [secretKey |-> TRUE, nodeEnv |-> "production"]

\* The tables as initDB leaves them, no request received yet.
InitStore ==
    /\ pending = {}
    /\ subscribers = {}
    /\ idSeq = 1
    /\ now = 0
    /\ ticks = 0
    /\ started = 0
    /\ req = [p \in Procs |-> Idle]
    /\ last = NoEntry
    /\ verified = <<>>
    /\ limiter = [b \in Buckets |-> [c \in Clients |-> NoWindow]]
    /\ served = NoServed
    /\ reply = "none"
    /\ captcha = NoCaptcha
    /\ pool = NoneHeld
    /\ mail = <<>>

Init ==
    /\ InitStore
    /\ env = ProductionEnv


\* ------------------------------------------------------- store statements
\* A purge that also takes the rows that expire at this very instant.
PurgeExpiredOrDue(tbl, t) == {r \in tbl : ~(r.expires_at <= t)}

\* A purge with no WHERE clause.
PurgeAll(tbl, t) == {}

\* DELETE FROM pending_verifications WHERE expires_at < NOW()
PurgeExpired(tbl, t) == {r \in tbl : ~(r.expires_at < t)}

\* An insert that keeps the row already there (ON CONFLICT DO NOTHING).
InsertPendingOrKeep(tbl, e, h, x) ==
    IF PendingOf(tbl, e) # {} THEN tbl
    ELSE tbl \cup {[email |-> e, otp_hash |-> h, expires_at |-> x]}

\* An insert with no conflict target: the new row is added to the old ones.
InsertPendingAppend(tbl, e, h, x) ==
    tbl \cup {[email |-> e, otp_hash |-> h, expires_at |-> x]}

\* INSERT INTO pending_verifications ... ON CONFLICT (email) DO UPDATE
\*   SET otp_hash = $2, expires_at = $3
UpsertPending(tbl, e, h, x) ==
    {r \in tbl : r.email # e} \cup {[email |-> e, otp_hash |-> h, expires_at |-> x]}

\* An insert that does not look for a conflicting row.
InsertSubscriberAlways(tbl, id, e) == {[id |-> id, email |-> e]}

\* INSERT INTO subscribers (email) VALUES ($1) ON CONFLICT (email) DO NOTHING:
\* the rows the statement adds, given the rows it can conflict with.
InsertSubscriber(tbl, id, e) ==
    IF SubscribersOf(tbl, e) # {} THEN {} ELSE {[id |-> id, email |-> e]}

\* An expiration check that already fires at expires_at itself.
IsExpiredAtOrAfter(t, expires_at) == t >= expires_at

\* An expiration check that never fires.
IsExpiredNever(t, expires_at) == FALSE

\* new Date() > new Date(expires_at)
IsExpired(t, expires_at) == t > expires_at

\* Rows of pending_verifications that an open transaction other than p's has
\* deleted and not yet committed: a statement writing one of them waits.
LockedPending(p) == UNION {req[q].delRows : q \in Procs \ {p}}

\* Emails another open transaction has inserted into subscribers.
LockedSubscribers(p) == {r.email : r \in UNION {req[q].insRows : q \in Procs \ {p}}}

\* ----------------------------------------------------------------- ghosts
\* What is remembered of the response to request r: for a request that ran
\* alone, what it was, its answer, the expiry it wrote or read and the
\* pending rows its email had when it arrived.
Entry(r, resp) ==
    IF r.g.alone
    THEN [op |-> r.op, email |-> r.email, otp |-> r.otp, resp |-> resp,
          expiresAt |-> r.expiresAt, pre |-> PendingOf(r.g.pre, r.email)]
    ELSE NoEntry

\* res.status(...).json(...): the handler has answered and its slot is free.
Respond(p, r, resp) ==
    /\ last' = Entry(r, resp)
    /\ req' = [req EXCEPT ![p] = Idle]

\* A response without the return: the handler answers and goes on.
RejectNoReturn(p, r, resp) ==
    /\ req' = [req EXCEPT ![p] = [r EXCEPT !.pc = IF r.op = "subscribe" THEN "purge"
                                                  ELSE "select"]]
    /\ reply' = resp
    /\ UNCHANGED <<last, started>>

\* A request answered on arrival has touched nothing: what follows it still
\* follows the response sent before it.
Reject(p, r, resp) ==
    /\ req' = [req EXCEPT ![p] = Idle]
    /\ reply' = resp
    /\ UNCHANGED <<last, started>>

\* Slot p takes a request that comes to touch the store.  It runs alone when
\* no other is in flight, and then the others no longer run alone.
Admit(p, r) ==
    /\ req' = [q \in Procs |->
                 IF q # p THEN [req[q] EXCEPT !.g = NoGhost]
                 ELSE IF \A o \in Procs \ {p} : ~InFlight(o)
                 THEN [r EXCEPT !.g = [alone |-> TRUE, t0 |-> now, pre |-> pending,
                                       preSub |-> subscribers, follows |-> last]]
                 ELSE r]
    /\ reply' = "none"
    /\ started' = started + 1
    /\ UNCHANGED last

\* ------------------------------------------------- POST /api/subscribe
\* A new request takes the lowest free handler slot (slots are anonymous).
FreeSlot(p) == ~InFlight(p) /\ \A q \in Procs : q < p => InFlight(q)

\* The request arrives: validateEmail, then await verifyRecaptcha(token),
\* whose result isHuman depends on the provider alone.
SubscribeArrive(p, email, isHuman) ==
    /\ FreeSlot(p)
    /\ LET normalizedEmail == validateEmail(email)
           r == [Idle EXCEPT !.op = "subscribe", !.email = normalizedEmail]
       IN  IF normalizedEmail = NoEmail
           THEN Reject(p, r, "InvalidEmail")
           ELSE IF ~isHuman
           THEN Reject(p, r, "BotSuspected")
           ELSE Admit(p, [r EXCEPT !.pc = "purge"])
    /\ UNCHANGED <<pending, subscribers, idSeq, now, ticks, verified, pool>>

SubscribeStart(p, email, isHuman) ==
    /\ started < MaxReqs
    /\ SubscribeArrive(p, email, isHuman)
    /\ UNCHANGED gateVars

\* await pool.query('DELETE FROM pending_verifications WHERE expires_at < NOW()')
SubscribePurge(p) ==
    /\ req[p].pc = "purge"
    /\ (pending \ PurgeExpired(pending, now)) \cap LockedPending(p) = {}
    /\ pending' = PurgeExpired(pending, now)
    /\ req' = [req EXCEPT ![p].pc = "checkSub"]
    /\ UNCHANGED <<subscribers, idSeq, now, ticks, started, last, verified>>
    /\ UNCHANGED <<reply, limiter, served, env, captcha, mail, pool>>

\* await pool.query('SELECT 1 FROM subscribers WHERE email = $1')
SubscribeCheckSub(p) ==
    /\ req[p].pc = "checkSub"
    /\ IF isSubscribed(req[p].email)
       THEN Respond(p, req[p], "AlreadySubscribed")
       ELSE /\ req' = [req EXCEPT ![p].pc = "hash"]
            /\ UNCHANGED last
    /\ UNCHANGED <<pending, subscribers, idSeq, now, ticks, started, verified>>
    /\ UNCHANGED <<reply, limiter, served, env, captcha, mail, pool>>

\* crypto.randomInt(100000, 999999).toString(); await bcrypt.hash(otp, 10)
\* resolves; expiresAt = new Date(Date.now() + 15 * 60 * 1000).
SubscribeHash(p, n, salt) ==
    /\ req[p].pc = "hash"
    /\ LET otp == NumToString(n)
       IN  req' = [req EXCEPT ![p].pc = "upsert",
                              ![p].otp = otp,
                              ![p].otpHash = bcryptHash(otp, salt),
                              ![p].expiresAt = now + OtpTtlMs]
    /\ UNCHANGED <<pending, subscribers, idSeq, now, ticks, started, last, verified>>
    /\ UNCHANGED <<reply, limiter, served, env, captcha, mail, pool>>

\* await pool.query('INSERT INTO pending_verifications ... ON CONFLICT ...')
SubscribeUpsert(p) ==
    /\ req[p].pc = "upsert"
    /\ PendingOf(pending, req[p].email) \cap LockedPending(p) = {}
    /\ pending' = UpsertPending(pending, req[p].email, req[p].otpHash, req[p].expiresAt)
    /\ req' = [req EXCEPT ![p].pc = "send"]
    /\ UNCHANGED <<subscribers, idSeq, now, ticks, started, last, verified>>
    /\ UNCHANGED <<reply, limiter, served, env, captcha, mail, pool>>

\* A delivery step whose failure takes the pending row of the email back.
SubscribeSendRollback(p, ok) ==
    /\ req[p].pc = "send"
    /\ pending' = IF ok THEN pending ELSE {r \in pending : r.email # req[p].email}
    /\ Respond(p, req[p], IF ok THEN "CodeSent" ELSE "Failed")
    /\ UNCHANGED <<subscribers, idSeq, now, ticks, started, verified>>
    /\ UNCHANGED <<reply, limiter, served, env, captcha, mail, pool>>

\* await axios.post('https://api.brevo.com/v3/smtp/email', ...) resolves, or
\* rejects and the catch answers 500.
Deliver(p, ok) ==
    /\ req[p].pc = "send"
    /\ Respond(p, req[p], IF ok THEN "CodeSent" ELSE "Failed")
    /\ UNCHANGED <<pending, subscribers, idSeq, now, ticks, started, verified>>
    /\ UNCHANGED <<reply, limiter, served, env, captcha, pool>>

\* The delivery step where the mails are not kept on record.
SubscribeSend(p, ok) ==
    /\ Deliver(p, ok)
    /\ UNCHANGED mail

\* The delivery step with the mail the provider has accepted put on record:
\* its recipient and the code in its body.
SubscribeSendMail(p, ok) ==
    /\ Deliver(p, ok)
    /\ mail' = IF ok THEN Append(mail, [email |-> req[p].email, otp |-> req[p].otp])
               ELSE mail

\* ---------------------------------------------------- POST /api/verify
\* The request arrives: validateEmail and the format check of otp, then
\* client = await pool.connect() and await client.query('BEGIN').
VerifyArrive(p, email, otp) ==
    /\ FreeSlot(p)
    /\ LET normalizedEmail == validateEmail(email)
           r == [Idle EXCEPT !.op = "verify"]
       IN  IF normalizedEmail = NoEmail \/ otp.type # "string"
                \/ Len(otp.str) # OtpLength
           THEN Reject(p, r, "InvalidInput") /\ UNCHANGED pool
           ELSE /\ Admit(p, [r EXCEPT !.pc = "select", !.email = normalizedEmail,
                                      !.otp = otp.str])
                /\ pool' = Begin(Connect(pool))
    /\ UNCHANGED <<pending, subscribers, idSeq, now, ticks, verified>>

VerifyStart(p, email, otp) ==
    /\ started < MaxReqs
    /\ VerifyArrive(p, email, otp)
    /\ UNCHANGED gateVars

\* await client.query('SELECT otp_hash, expires_at ... WHERE email = $1').
\* No row: ROLLBACK and 400.  Else rows[0]; 1. the expiration check; 2. await
\* bcrypt.compare(otp, otp_hash), and when not valid ROLLBACK and 400.  A
\* return passes through finally { client.release() }.
VerifySelect(p) ==
    /\ req[p].pc = "select"
    /\ LET rows == PendingOf(pending, req[p].email)
       IN  IF rows = {}
           THEN /\ Respond(p, req[p], "NoPendingVerification")
                /\ pool' = Release(EndTx(pool))
           ELSE \E row \in rows :
                  LET r == [req[p] EXCEPT !.otpHash = row.otp_hash,
                                          !.expiresAt = row.expires_at]
                  IN  IF IsExpired(now, row.expires_at)
                      THEN /\ req' = [req EXCEPT ![p] = [r EXCEPT !.pc = "expiredDelete"]]
                           /\ UNCHANGED <<last, pool>>
                      ELSE IF ~bcryptCompare(r.otp, r.otpHash)
                      THEN /\ Respond(p, r, "InvalidCode")
                           /\ pool' = Release(EndTx(pool))
                      ELSE /\ req' = [req EXCEPT ![p] = [r EXCEPT !.pc = "delete"]]
                           /\ UNCHANGED <<last, pool>>
    /\ UNCHANGED <<pending, subscribers, idSeq, now, ticks, started, verified>>
    /\ UNCHANGED <<reply, limiter, served, env, captcha, mail>>

\* A transaction step that goes on without deleting anything.
TxDeleteNothing(p, next) ==
    /\ req' = [req EXCEPT ![p].pc = next]
    /\ UNCHANGED <<pending, subscribers, idSeq, now, ticks, started, last, verified>>
    /\ UNCHANGED <<reply, limiter, served, env, captcha, mail, pool>>

\* await client.query('DELETE FROM pending_verifications WHERE email = $1')
\* inside the transaction: the rows are deleted at COMMIT.
TxDeletePending(p, next) ==
    /\ PendingOf(pending, req[p].email) \cap LockedPending(p) = {}
    /\ req' = [req EXCEPT ![p].delRows = PendingOf(pending, req[p].email),
                          ![p].pc = next]
    /\ UNCHANGED <<pending, subscribers, idSeq, now, ticks, started, last, verified>>
    /\ UNCHANGED <<reply, limiter, served, env, captcha, mail, pool>>

\* The expired branch: DELETE ...
VerifyExpiredDelete(p) ==
    /\ req[p].pc = "expiredDelete"
    /\ TxDeletePending(p, "expiredCommit")

\* ... COMMIT and 400 'Verification code has expired.', through finally.
VerifyExpiredCommit(p) ==
    /\ req[p].pc = "expiredCommit"
    /\ pending' = pending \ req[p].delRows
    /\ Respond(p, req[p], "CodeExpired")
    /\ pool' = Release(EndTx(pool))
    /\ UNCHANGED <<subscribers, idSeq, now, ticks, started, verified>>
    /\ UNCHANGED <<reply, limiter, served, env, captcha, mail>>

\* 3. Complete subscription: DELETE ...
VerifyDelete(p) ==
    /\ req[p].pc = "delete"
    /\ TxDeletePending(p, "insert")

\* ... INSERT INTO subscribers (email) VALUES ($1) ON CONFLICT (email) DO
\* NOTHING: the sequence advances, the row is inserted at COMMIT.
VerifyInsert(p) ==
    /\ req[p].pc = "insert"
    /\ req[p].email \notin LockedSubscribers(p)
    /\ req' = [req EXCEPT ![p].insRows = InsertSubscriber(subscribers, idSeq, req[p].email),
                          ![p].pc = "commit"]
    /\ idSeq' = idSeq + 1
    /\ UNCHANGED <<pending, subscribers, now, ticks, started, last, verified>>
    /\ UNCHANGED <<reply, limiter, served, env, captcha, mail, pool>>

\* A COMMIT whose insert replaces the row of the email by a new one.
VerifyCommitReplace(p) ==
    /\ req[p].pc = "commit"
    /\ pending' = pending \ req[p].delRows
    /\ subscribers' = {r \in subscribers : r.email # req[p].email}
                          \cup {[id |-> idSeq, email |-> req[p].email]}
    /\ Respond(p, req[p], "Verified")
    /\ verified' = Append(verified, [email |-> req[p].email, otp_hash |-> req[p].otpHash,
                                     expires_at |-> req[p].expiresAt])
    /\ pool' = Release(EndTx(pool))
    /\ UNCHANGED <<idSeq, now, ticks, started>>
    /\ UNCHANGED <<reply, limiter, served, env, captcha, mail>>

\* ... COMMIT and 200 'Welcome to the cohort! Verification successful.', then
\* finally { client.release() }.
VerifyCommit(p) ==
    /\ req[p].pc = "commit"
    /\ pending' = pending \ req[p].delRows
    /\ subscribers' = subscribers \cup req[p].insRows
    /\ Respond(p, req[p], "Verified")
    /\ verified' = Append(verified, [email |-> req[p].email, otp_hash |-> req[p].otpHash,
                                     expires_at |-> req[p].expiresAt])
    /\ pool' = Release(EndTx(pool))
    /\ UNCHANGED <<idSeq, now, ticks, started>>
    /\ UNCHANGED <<reply, limiter, served, env, captcha, mail>>

\* ------------------------------------------------------------------ clock
Tick ==
    /\ ticks < MaxTicks
    /\ ticks' = ticks + 1
    /\ now' = now + TickStep(ticks)
    /\ UNCHANGED <<pending, subscribers, idSeq, started, req, last, verified>>
    /\ UNCHANGED <<reply, limiter, served, env, captcha, mail, pool>>

Next ==
    \/ \E p \in Procs, email \in EmailInputs, isHuman \in BOOLEAN :
          SubscribeStart(p, email, isHuman)
    \/ \E p \in Procs : SubscribePurge(p)
    \/ \E p \in Procs : SubscribeCheckSub(p)
    \/ \E p \in Procs, n \in randomInt(RandomIntMin, RandomIntMax), salt \in Salts :
          SubscribeHash(p, n, salt)
    \/ \E p \in Procs : SubscribeUpsert(p)
    \/ \E p \in Procs, ok \in BOOLEAN : SubscribeSend(p, ok)
    \/ \E p \in Procs, email \in EmailInputs, otp \in OtpInputs : VerifyStart(p, email, otp)
    \/ \E p \in Procs : VerifySelect(p)
    \/ \E p \in Procs : VerifyExpiredDelete(p)
    \/ \E p \in Procs : VerifyExpiredCommit(p)
    \/ \E p \in Procs : VerifyDelete(p)
    \/ \E p \in Procs : VerifyInsert(p)
    \/ \E p \in Procs : VerifyCommit(p)
    \/ Tick

Spec == Init /\ [][Next]_vars

\* ------------------------------------------------- one request at a time
\* The same handlers when every request arrives after the one before it has
\* been answered.
Quiet == \A q \in Procs : ~InFlight(q)

SerialSubscribeStart(p, email, isHuman) ==
    /\ Quiet
    /\ started < MaxSerialReqs
    /\ SubscribeArrive(p, email, isHuman)
    /\ UNCHANGED gateVars

SerialVerifyStart(p, email, otp) ==
    /\ Quiet
    /\ started < MaxSerialReqs
    /\ VerifyArrive(p, email, otp)
    /\ UNCHANGED gateVars

SerialNext ==
    \/ \E p \in Procs, email \in EmailInputs, isHuman \in BOOLEAN :
          SerialSubscribeStart(p, email, isHuman)
    \/ \E p \in Procs : SubscribePurge(p)
    \/ \E p \in Procs : SubscribeCheckSub(p)
    \/ \E p \in Procs, n \in randomInt(RandomIntMin, RandomIntMax), salt \in Salts :
          SubscribeHash(p, n, salt)
    \/ \E p \in Procs : SubscribeUpsert(p)
    \/ \E p \in Procs, ok \in BOOLEAN : SubscribeSend(p, ok)
    \/ \E p \in Procs, email \in EmailInputs, otp \in OtpInputs :
          SerialVerifyStart(p, email, otp)
    \/ \E p \in Procs : VerifySelect(p)
    \/ \E p \in Procs : VerifyExpiredDelete(p)
    \/ \E p \in Procs : VerifyExpiredCommit(p)
    \/ \E p \in Procs : VerifyDelete(p)
    \/ \E p \in Procs : VerifyInsert(p)
    \/ \E p \in Procs : VerifyCommit(p)
    \/ Tick

SerialSpec == Init /\ [][SerialNext]_vars

\* ------------------------------------------------------- store faults
\* The same handlers when a statement sent to the store can be rejected.
\* /api/subscribe: a rejected pool.query lands in the catch, which answers 500.
SubscribeFault(p) ==
    /\ req[p].pc \in {"purge", "checkSub", "upsert"}
    /\ Respond(p, req[p], "Failed")
    /\ UNCHANGED <<pending, subscribers, idSeq, now, ticks, started, verified>>
    /\ UNCHANGED <<reply, limiter, served, env, captcha, mail, pool>>

\* A catch that ends the transaction by committing what it has done so far.
VerifyCatchCommit(p) ==
    /\ pending' = pending \ req[p].delRows
    /\ subscribers' = subscribers \cup req[p].insRows
    /\ Respond(p, req[p], "VerifyFailed")
    /\ pool' = Release(EndTx(pool))
    /\ UNCHANGED <<idSeq, now, ticks, started, verified>>
    /\ UNCHANGED <<reply, limiter, served, env, captcha, mail>>

\* catch (error) { await client.query('ROLLBACK'); ... res.status(500) }
\* finally { client.release() }: the buffered writes of the transaction are
\* dropped.
VerifyCatch(p) ==
    /\ Respond(p, req[p], "VerifyFailed")
    /\ pool' = Release(EndTx(pool))
    /\ UNCHANGED <<pending, subscribers, idSeq, now, ticks, started, verified>>
    /\ UNCHANGED <<reply, limiter, served, env, captcha, mail>>

\* /api/verify: a rejected client.query (the SELECT, a DELETE, the INSERT or
\* the COMMIT) lands in the catch.
VerifyFault(p) ==
    /\ req[p].pc \in {"select", "expiredDelete", "expiredCommit", "delete", "insert", "commit"}
    /\ VerifyCatch(p)

FaultNext ==
    \/ \E p \in Procs, email \in EmailInputs, isHuman \in BOOLEAN :
          SubscribeStart(p, email, isHuman)
    \/ \E p \in Procs : SubscribePurge(p)
    \/ \E p \in Procs : SubscribeCheckSub(p)
    \/ \E p \in Procs, n \in randomInt(RandomIntMin, RandomIntMax), salt \in Salts :
          SubscribeHash(p, n, salt)
    \/ \E p \in Procs : SubscribeUpsert(p)
    \/ \E p \in Procs, ok \in BOOLEAN : SubscribeSend(p, ok)
    \/ \E p \in Procs : SubscribeFault(p)
    \/ \E p \in Procs, email \in EmailInputs, otp \in OtpInputs : VerifyStart(p, email, otp)
    \/ \E p \in Procs : VerifySelect(p)
    \/ \E p \in Procs : VerifyExpiredDelete(p)
    \/ \E p \in Procs : VerifyExpiredCommit(p)
    \/ \E p \in Procs : VerifyDelete(p)
    \/ \E p \in Procs : VerifyInsert(p)
    \/ \E p \in Procs : VerifyCommit(p)
    \/ \E p \in Procs : VerifyFault(p)
    \/ Tick

FaultSpec == Init /\ [][FaultNext]_vars

\* ------------------------------------------------------- rate limiting
\* The bodies the clients of the limiter specifications send: a well-formed
\* and a malformed address, a code of six characters and one of five.
GateEmailInputs == {Str(<<"a", "@", "b", ".", "c">>), Str(<<"a", "@", "b">>)}

GateOtpInputs == {Str(NumToString(100000)), Str(NumToString(99999))}

\* No keyGenerator option: a client is counted under its address (req.ip).
KeyOf(c) == c

\* Three routes counted in one store.
StoreOfAll(b) == "api"

\* Each rateLimit(...) call makes a limiter with a store of its own.
StoreOf(b) == b

\* The store counts a hit: the first hit of a client, or the first after the
\* window's resetTime, opens a window of windowMs; any other adds one.
Increment(rec, b, t) ==
    IF rec.totalHits = 0 \/ rec.resetTime <= t
    THEN [totalHits |-> 1, resetTime |-> t + WindowMs(b)]
    ELSE [rec EXCEPT !.totalHits = @ + 1]

\* A limit that lets one more request through.
ExceededByTwo(rec, b) == rec.totalHits > MaxHits(b) + 1

\* The request is over the limit: it gets 429 and the message of the bucket.
Exceeded(rec, b) == rec.totalHits > MaxHits(b)

\* The limiter of bucket b counts a request of client c ...
Limit(b, c) ==
    /\ limiter' = [limiter EXCEPT ![StoreOf(b)][KeyOf(c)] = Increment(@, b, now)]
    /\ served' = [bucket |-> b, client |-> c]

\* ... and turns it away when the count is then over the limit.
Denied(b, c) == Exceeded(Increment(limiter[StoreOf(b)][KeyOf(c)], b, now), b)

\* The windows that are open.
Active ==
    {w \in Buckets \X Clients :
        limiter[w[1]][w[2]].totalHits > 0 /\ limiter[w[1]][w[2]].resetTime > now}

\* The requests the model sends: to at most MaxActive open windows, and to a
\* window until it has recorded MaxOver hits beyond its max.
LimitBound(b, c) ==
    /\ Cardinality(Active \cup {<<StoreOf(b), KeyOf(c)>>}) <= MaxActive
    /\ \/ <<StoreOf(b), KeyOf(c)>> \notin Active
       \/ limiter[StoreOf(b)][KeyOf(c)].totalHits < MaxHits(b) + MaxOver

\* app.get('/api/health', apiLimiter, ...): 429 or { status: 'ok' }.
Health(c) ==
    /\ LimitBound("api", c)
    /\ Limit("api", c)
    /\ reply' = IF Denied("api", c) THEN "RateLimited" ELSE "none"
    /\ UNCHANGED <<pending, subscribers, idSeq, now, ticks, started, req, last, verified>>
    /\ UNCHANGED <<env, captcha, mail, pool>>

\* A route that validates the address before its limiter counts the request.
LimitedSubscribeValidateFirst(c, p, email, isHuman) ==
    /\ Quiet
    /\ LimitBound("subscribe", c)
    /\ IF validateEmail(email) = NoEmail
       THEN /\ SubscribeArrive(p, email, isHuman)
            /\ UNCHANGED <<limiter, served>>
       ELSE /\ Limit("subscribe", c)
            /\ IF Denied("subscribe", c)
               THEN /\ reply' = "RateLimited"
                    /\ UNCHANGED <<pending, subscribers, idSeq, now, ticks, started, req,
                                   last, verified, pool>>
               ELSE SubscribeArrive(p, email, isHuman)
    /\ UNCHANGED <<env, captcha, mail>>

\* app.post('/api/subscribe', subscribeLimiter, async (req, res) => ...): the
\* limiter answers 429 or calls the handler.
LimitedSubscribe(c, p, email, isHuman) ==
    /\ Quiet
    /\ LimitBound("subscribe", c)
    /\ Limit("subscribe", c)
    /\ IF Denied("subscribe", c)
       THEN /\ reply' = "RateLimited"
            /\ UNCHANGED <<pending, subscribers, idSeq, now, ticks, started, req, last,
                           verified, pool>>
       ELSE SubscribeArrive(p, email, isHuman)
    /\ UNCHANGED <<env, captcha, mail>>

\* app.post('/api/verify', verifyLimiter, async (req, res) => ...)
LimitedVerify(c, p, email, otp) ==
    /\ Quiet
    /\ LimitBound("verify", c)
    /\ Limit("verify", c)
    /\ IF Denied("verify", c)
       THEN /\ reply' = "RateLimited"
            /\ UNCHANGED <<pending, subscribers, idSeq, now, ticks, started, req, last,
                           verified, pool>>
       ELSE VerifyArrive(p, email, otp)
    /\ UNCHANGED <<env, captcha, mail>>

\* The clock of the limiter specifications is observed one millisecond before
\* and at the end of a window opened at 0: at W - 1 and W for the windows of
\* 15 minutes, then at 4W - 1 and 4W for the window of one hour.
GateTickStep(k) ==
    CASE k % 4 = 0 -> 15 * 60 * 1000 - 1
      [] k % 4 = 1 -> 1
      [] k % 4 = 2 -> 45 * 60 * 1000 - 1
      [] OTHER     -> 1

\* Time passes; the stores drop the windows whose resetTime has come.
GateTick ==
    /\ ticks < MaxGateTicks
    /\ ticks' = ticks + 1
    /\ now' = now + GateTickStep(ticks)
    /\ limiter' = [b \in Buckets |-> [c \in Clients |->
                      IF limiter[b][c].resetTime <= now' THEN NoWindow ELSE limiter[b][c]]]
    /\ UNCHANGED <<pending, subscribers, idSeq, started, req, last, verified>>
    /\ UNCHANGED <<served, reply, env, captcha, mail, pool>>

\* The three routes under requests that are turned away before the store: a
\* limiter counts a request whatever its body is.
TurnedAwaySubscribe(c, p, email, isHuman) ==
    /\ LimitedSubscribe(c, p, email, isHuman)
    /\ started' = started

TurnedAwayVerify(c, p, email, otp) ==
    /\ LimitedVerify(c, p, email, otp)
    /\ started' = started

LimiterNext ==
    \/ \E c \in Clients : Health(c)
    \/ \E c \in Clients, p \in Procs, email \in GateEmailInputs, isHuman \in BOOLEAN :
          TurnedAwaySubscribe(c, p, email, isHuman)
    \/ \E c \in Clients, p \in Procs, email \in GateEmailInputs, otp \in GateOtpInputs :
          TurnedAwayVerify(c, p, email, otp)
    \/ GateTick

LimiterSpec == Init /\ [][LimiterNext]_vars

\* The two POST routes behind their limiters, one request at a time, with the
\* clock of the handlers (no window of a limiter ends within it).
GateSubscribeStart(c, p, email, isHuman) ==
    /\ LimitedSubscribe(c, p, email, isHuman)
    /\ started' <= MaxGateReqs

GateVerifyStart(c, p, email, otp) ==
    /\ LimitedVerify(c, p, email, otp)
    /\ started' <= MaxGateReqs

\* The clients that send requests while the handlers run.
GateClients == 1..NumGateClients

GateNext ==
    \/ \E c \in GateClients, p \in Procs, email \in GateEmailInputs, isHuman \in BOOLEAN :
          GateSubscribeStart(c, p, email, isHuman)
    \/ \E p \in Procs : SubscribePurge(p)
    \/ \E p \in Procs : SubscribeCheckSub(p)
    \/ \E p \in Procs, n \in randomInt(RandomIntMin, RandomIntMax), salt \in Salts :
          SubscribeHash(p, n, salt)
    \/ \E p \in Procs : SubscribeUpsert(p)
    \/ \E p \in Procs, ok \in BOOLEAN : SubscribeSend(p, ok)
    \/ \E c \in GateClients, p \in Procs, email \in GateEmailInputs, otp \in GateOtpInputs :
          GateVerifyStart(c, p, email, otp)
    \/ \E p \in Procs : VerifySelect(p)
    \/ \E p \in Procs : VerifyExpiredDelete(p)
    \/ \E p \in Procs : VerifyExpiredCommit(p)
    \/ \E p \in Procs : VerifyDelete(p)
    \/ \E p \in Procs : VerifyInsert(p)
    \/ \E p \in Procs : VerifyCommit(p)
    \/ Tick

GateSpec == Init /\ [][GateNext]_vars

\* ------------------------------------------- spellings of one address
\* The handlers, one request at a time, when /api/subscribe always gets an
\* address in capitals, with or without spaces around it, and /api/verify
\* always gets the same address in small letters.
IssueSpellings ==
    { Str(<<" ", "A", "@", "B", ".", "c", " ">>),
      Str(<<"X", "@", "b", ".", "c">>) }

ConfirmSpellings ==
    { Str(<<"a", "@", "b", ".", "c">>),
      Str(<<"x", "@", "b", ".", "c", " ">>) }

SpelledSubscribeStart(p, email, isHuman) ==
    /\ Quiet
    /\ started < MaxSpelledReqs
    /\ SubscribeArrive(p, email, isHuman)
    /\ UNCHANGED gateVars

SpelledVerifyStart(p, email, otp) ==
    /\ Quiet
    /\ started < MaxSpelledReqs
    /\ VerifyArrive(p, email, otp)
    /\ UNCHANGED gateVars

SpelledNext ==
    \/ \E p \in Procs, email \in IssueSpellings, isHuman \in BOOLEAN :
          SpelledSubscribeStart(p, email, isHuman)
    \/ \E p \in Procs : SubscribePurge(p)
    \/ \E p \in Procs : SubscribeCheckSub(p)
    \/ \E p \in Procs, n \in randomInt(RandomIntMin, RandomIntMax), salt \in Salts :
          SubscribeHash(p, n, salt)
    \/ \E p \in Procs : SubscribeUpsert(p)
    \/ \E p \in Procs, ok \in BOOLEAN : SubscribeSend(p, ok)
    \/ \E p \in Procs, email \in ConfirmSpellings, otp \in OtpInputs :
          SpelledVerifyStart(p, email, otp)
    \/ \E p \in Procs : VerifySelect(p)
    \/ \E p \in Procs : VerifyExpiredDelete(p)
    \/ \E p \in Procs : VerifyExpiredCommit(p)
    \/ \E p \in Procs : VerifyDelete(p)
    \/ \E p \in Procs : VerifyInsert(p)
    \/ \E p \in Procs : VerifyCommit(p)
    \/ Tick

SpelledSpec == Init /\ [][SpelledNext]_vars

\* ------------------------------------------------- the mails delivered
\* Concurrent requests to /api/subscribe, with the mails the provider accepts
\* on record in the order in which it accepts them.
MailSubscribeStart(p, email, isHuman) ==
    /\ started < MaxMailReqs
    /\ SubscribeArrive(p, email, isHuman)
    /\ UNCHANGED gateVars

MailNext ==
    \/ \E p \in Procs, email \in EmailInputs, isHuman \in BOOLEAN :
          MailSubscribeStart(p, email, isHuman)
    \/ \E p \in Procs : SubscribePurge(p)
    \/ \E p \in Procs : SubscribeCheckSub(p)
    \/ \E p \in Procs, n \in randomInt(RandomIntMin, RandomIntMax), salt \in Salts :
          SubscribeHash(p, n, salt)
    \/ \E p \in Procs : SubscribeUpsert(p)
    \/ \E p \in Procs, ok \in BOOLEAN : SubscribeSendMail(p, ok)

MailSpec == Init /\ [][MailNext]_vars

\* ------------------------------------------ a provider that never answers
\* A call of the provider without the timeout option: it waits for an answer.
SubscribeSendForever(p) ==
    /\ req[p].pc = "send"
    /\ FALSE
    /\ UNCHANGED vars

\* await axios.post(..., { ..., timeout: 10000 }) when no answer comes: after
\* 10000 ms the timer of the call fires, the call rejects and the catch
\* answers 500.  The request runs alone, so that is what the clock shows then.
SubscribeSendTimeout(p) ==
    /\ req[p].pc = "send"
    /\ now' = now + DeliveryTimeoutMs
    /\ Respond(p, req[p], "Failed")
    /\ UNCHANGED <<pending, subscribers, idSeq, ticks, started, verified>>
    /\ UNCHANGED <<reply, limiter, served, env, captcha, mail, pool>>

LiveSubscribeStart(p, email, isHuman) ==
    /\ Quiet
    /\ started < MaxLiveReqs
    /\ SubscribeArrive(p, email, isHuman)
    /\ UNCHANGED gateVars

\* /api/subscribe, one request at a time, with a mail provider that accepts
\* the connection and never answers.
LiveNext ==
    \/ \E p \in Procs, email \in EmailInputs, isHuman \in BOOLEAN :
          LiveSubscribeStart(p, email, isHuman)
    \/ \E p \in Procs : SubscribePurge(p)
    \/ \E p \in Procs : SubscribeCheckSub(p)
    \/ \E p \in Procs, n \in randomInt(RandomIntMin, RandomIntMax), salt \in Salts :
          SubscribeHash(p, n, salt)
    \/ \E p \in Procs : SubscribeUpsert(p)
    \/ \E p \in Procs : SubscribeSendTimeout(p)
    \/ Tick

\* The timer of a call that is waiting fires: the event loop runs due timers.
LiveSpec ==
    /\ Init
    /\ [][LiveNext]_vars
    /\ \A p \in Procs : WF_vars(SubscribeSendTimeout(p))

\* --------------------------------------------------- the bot check alone
\* verifyRecaptcha under every environment, token and answer of the provider.
RecaptchaInit ==
    /\ InitStore
    /\ env \in Envs

RecaptchaCall(token, out) ==
    /\ captcha' = [token |-> token, outcome |-> out,
                   called |-> verifyRecaptcha(env, token, out).called,
                   result |-> verifyRecaptcha(env, token, out).result]
    /\ UNCHANGED <<pending, subscribers, idSeq, now, ticks, started, req, last, verified>>
    /\ UNCHANGED <<limiter, served, reply, env, mail, pool>>

RecaptchaNext == \E token \in Tokens, out \in ProviderOutcomes : RecaptchaCall(token, out)

RecaptchaSpec == RecaptchaInit /\ [][RecaptchaNext]_vars

\* ======================================================================
\* Properties
\* ======================================================================
\* Slot p's request is answered in this step.
Answers(p) == req[p].pc # "idle" /\ req'[p].pc = "idle"

\* The pending rows the email of p's request had when the request arrived.
PreRows(p) == PendingOf(req[p].g.pre, req[p].email)

\* The subscriber rows the email of p's request had when it arrived.
PreSubscribed(p) == SubscribersOf(req[p].g.preSub, req[p].email)

\* A confirm that runs alone and arrived right after issue for the same email
\* had answered 200, submitting the code that issue put in the email.
ConfirmsDelivered(p) ==
    /\ req[p].g.alone
    /\ req[p].op = "verify"
    /\ req[p].g.follows.op = "subscribe"
    /\ req[p].g.follows.resp = "CodeSent"
    /\ req[p].g.follows.email = req[p].email
    /\ req[p].g.follows.otp = req[p].otp

\* C1: issue(E) that succeeds, followed at once (nothing in between, the
\* validity window not over) by confirm(E, code) with the code delivered, is
\* answered with success, and then E is subscribed and has no pending record.
C1_IssueThenConfirm ==
    [][\A p \in Procs :
          (ConfirmsDelivered(p) /\ now <= req[p].g.follows.expiresAt /\ Answers(p))
              => /\ last'.resp = "Verified"
                 /\ SubscribersOf(subscribers', req[p].email) # {}
                 /\ PendingOf(pending', req[p].email) = {}]_vars

\* The confirm of a code just delivered has reached its COMMIT.
C1_Witness ==
    \E p \in Procs :
        /\ ConfirmsDelivered(p)
        /\ now <= req[p].g.follows.expiresAt
        /\ req[p].pc = "commit"
        /\ req[p].insRows # {}

\* C2: a Subscriber row is created only by the COMMIT of a confirm whose code
\* is the one hashed in a pending row of that email which the confirm found
\* not expired when it checked; no other step adds (or removes) a Subscriber row.
C2_OnlyConfirmSubscribes ==
    [][/\ subscribers' # subscribers
            => \E p \in Procs :
                  /\ req[p].pc = "commit"
                  /\ Answers(p)
                  /\ (last' = NoEntry \/ last'.resp = "Verified")
                  /\ subscribers' = subscribers \cup req[p].insRows
                  /\ \A r \in req[p].insRows : r.email = req[p].email
                  /\ req[p].otpHash.digest = req[p].otp
       /\ \A p \in Procs :
            /\ (req'[p].pc = "delete" /\ req[p].pc # "delete")
                  => /\ req[p].pc = "select"
                     /\ req'[p].email = req[p].email
                     /\ req'[p].otp = req[p].otp
                     /\ \E row \in PendingOf(pending, req[p].email) :
                           /\ row.otp_hash = req'[p].otpHash
                           /\ row.otp_hash.digest = req[p].otp
                           /\ now <= row.expires_at
            /\ (req'[p].pc = "insert" /\ req[p].pc # "insert")
                  => /\ req[p].pc = "delete"
                     /\ req'[p].email = req[p].email
                     /\ req'[p].otp = req[p].otp
                     /\ req'[p].otpHash = req[p].otpHash
            /\ (req'[p].pc = "commit" /\ req[p].pc # "commit")
                  => /\ req[p].pc = "insert"
                     /\ req'[p].email = req[p].email
                     /\ req'[p].otp = req[p].otp
                     /\ req'[p].otpHash = req[p].otpHash]_vars

\* A confirm has created a Subscriber row.
C2_Witness ==
    /\ subscribers # {}
    /\ verified # <<>>

\* A confirm that runs alone for an email that is not subscribed and has a
\* pending record, with a code that is not the one hashed in the record.
ConfirmsWrongCode(p) ==
    /\ req[p].g.alone
    /\ req[p].op = "verify"
    /\ PreRows(p) # {}
    /\ \A r \in PreRows(p) : r.otp_hash.digest # req[p].otp
    /\ PreSubscribed(p) = {}

WrongCodeOutcome(p) ==
    /\ last'.resp = "InvalidCode"
    /\ PendingOf(pending', req[p].email) = PreRows(p)
    /\ SubscribersOf(subscribers', req[p].email) = {}

\* C3 as stated: confirm(E, wrong_code) always answers InvalidCode, leaves the
\* pending record of E in place and leaves E not subscribed.
C3_WrongCodeAlwaysInvalid ==
    [][\A p \in Procs :
          (ConfirmsWrongCode(p) /\ Answers(p)) => WrongCodeOutcome(p)]_vars

\* C3 amended: confirm(E, wrong_code) against a pending record of E that has
\* not expired answers InvalidCode, leaves the record in place and leaves E
\* not subscribed.
C3_WrongCodeOnLiveRecord ==
    [][\A p \in Procs :
          (/\ ConfirmsWrongCode(p)
           /\ \A r \in PreRows(p) : now <= r.expires_at
           /\ Answers(p)) => WrongCodeOutcome(p)]_vars

\* A wrong code has been answered InvalidCode and the record is still there.
C3_Witness ==
    /\ last.op = "verify"
    /\ last.resp = "InvalidCode"
    /\ last.pre # {}
    /\ \A r \in last.pre : r.otp_hash.digest # last.otp /\ now <= r.expires_at
    /\ PendingOf(pending, last.email) = last.pre
    /\ ~isSubscribed(last.email)
    /\ Quiet

\* A confirm that runs alone with the code hashed in the pending record of its
\* email, arriving after the record's expires_at.
ConfirmsExpired(p) ==
    /\ req[p].g.alone
    /\ req[p].op = "verify"
    /\ PreRows(p) # {}
    /\ \A r \in PreRows(p) :
          r.otp_hash.digest = req[p].otp /\ req[p].g.t0 > r.expires_at

\* A confirm that runs alone and arrived right after the same confirm had
\* been answered CodeExpired.
ConfirmsAgainAfterExpired(p) ==
    /\ req[p].g.alone
    /\ req[p].op = "verify"
    /\ req[p].g.follows.op = "verify"
    /\ req[p].g.follows.resp = "CodeExpired"
    /\ req[p].g.follows.email = req[p].email
    /\ req[p].g.follows.otp = req[p].otp

\* C4: after expires_at, confirm(E, correct_code) answers CodeExpired and
\* deletes the record; the next confirm(E, correct_code) answers
\* NoPendingVerification; neither changes the Subscriber rows of E.
C4_ExpiredThenNoPending ==
    [][\A p \in Procs :
          /\ (ConfirmsExpired(p) /\ Answers(p))
                => /\ last'.resp = "CodeExpired"
                   /\ PendingOf(pending', req[p].email) = {}
                   /\ SubscribersOf(subscribers', req[p].email) = PreSubscribed(p)
          /\ (ConfirmsAgainAfterExpired(p) /\ Answers(p))
                => /\ last'.resp = "NoPendingVerification"
                   /\ PendingOf(pending', req[p].email) = {}
                   /\ SubscribersOf(subscribers', req[p].email) = PreSubscribed(p)]_vars

\* The second confirm is in flight: the first found the record expired,
\* answered CodeExpired and deleted it.
C4_Witness ==
    \E p \in Procs :
        /\ ConfirmsAgainAfterExpired(p)
        /\ req[p].g.follows.pre # {}
        /\ \A r \in req[p].g.follows.pre : r.otp_hash.digest = req[p].otp
        /\ PreRows(p) = {}
        /\ PreSubscribed(p) = {}

\* A confirm that runs alone and arrived right after a second issue for its
\* email had answered 200, submitting the code hashed in the record which
\* that second issue found, while the second record has not expired.
ConfirmsFirstCode(p) ==
    /\ req[p].g.alone
    /\ req[p].op = "verify"
    /\ req[p].g.follows.op = "subscribe"
    /\ req[p].g.follows.resp = "CodeSent"
    /\ req[p].g.follows.email = req[p].email
    /\ req[p].g.follows.pre # {}
    /\ \A r \in req[p].g.follows.pre : r.otp_hash.digest = req[p].otp
    /\ now <= req[p].g.follows.expiresAt

IssuesForSubscribed(p) ==
    /\ req[p].g.alone
    /\ req[p].op = "subscribe"
    /\ PreSubscribed(p) # {}

C7_ExactlyOneSuccess ==
    \A i, j \in DOMAIN verified : i # j => verified[i] # verified[j]

\* C8: at most one Subscriber row per email, and exactly one for an email
\* whose confirms have succeeded.
C8_OneSubscriberRow ==
    /\ \A r \in subscribers : Cardinality(SubscribersOf(subscribers, r.email)) <= 1
    /\ \A i \in DOMAIN verified :
          Cardinality(SubscribersOf(subscribers, verified[i].email)) = 1

\* Two confirms of one pending record have both committed.
C8_Witness ==
    /\ Len(verified) >= 2
    /\ verified[1] = verified[2]
    /\ Cardinality(SubscribersOf(subscribers, verified[1].email)) = 1

\* C9: at most one pending row per email; the upsert of issue(E) leaves E with
\* exactly the row (hash, expiry) of that upsert and leaves every other email
\* alone, so of two concurrent issues the one whose upsert ran last decides;
\* no other step changes the rows of an email except by deleting them.
C9_OnePendingRow ==
    [][/\ \A r \in pending' : Cardinality(PendingOf(pending', r.email)) <= 1
       /\ \A p \in Procs :
            (req[p].pc = "upsert" /\ req'[p].pc # "upsert")
                => /\ PendingOf(pending', req[p].email)
                        = {[email |-> req[p].email, otp_hash |-> req[p].otpHash,
                            expires_at |-> req[p].expiresAt]}
                   /\ \A r \in pending \cup pending' :
                         r.email # req[p].email => (r \in pending <=> r \in pending')
       /\ (\A p \in Procs : ~(req[p].pc = "upsert" /\ req'[p].pc # "upsert"))
                => pending' \subseteq pending]_vars

\* Two concurrent issues for one email have both upserted, with different
\* hashes, and one row is left.
C9_Witness ==
    \E p, q \in Procs :
        /\ p # q
        /\ req[p].pc = "send" /\ req[q].pc = "send"
        /\ req[p].email = req[q].email
        /\ req[p].otpHash # req[q].otpHash
        /\ Cardinality(PendingOf(pending, req[p].email)) = 1

\* C10 as stated: an email with a Subscriber row never has a pending row.
C10_ConfirmedIsTerminal ==
    \A r \in subscribers : PendingOf(pending, r.email) = {}

\* C11: a Subscriber row, once there, stays as it is after every step; the
\* COMMIT of a confirm for an email that is already subscribed leaves the
\* subscriber table as it was.
C11_SubscribedStays ==
    [][/\ \A r \in subscribers : r \in subscribers'
       /\ \A p \in Procs :
            (req[p].pc = "commit" /\ Answers(p) /\ isSubscribed(req[p].email))
                => subscribers' = subscribers]_vars

\* A second confirm has committed for an email that was subscribed by the first.
C11_Witness ==
    \E r \in subscribers : \E i, j \in DOMAIN verified :
        /\ i < j
        /\ verified[i].email = r.email
        /\ verified[j].email = r.email
        /\ r.id < idSeq - 1

\* The row an issue has written: its email, the hash of its code, its expiry.
OwnRow(r) == [email |-> r.email, otp_hash |-> r.otpHash, expires_at |-> r.expiresAt]

\* An issue that runs alone and arrived right after issue for the same email
\* had been answered 500.
IssuesAfterFailed(p) ==
    /\ req[p].g.alone
    /\ req[p].op = "subscribe"
    /\ req[p].g.follows.op = "subscribe"
    /\ req[p].g.follows.resp = "Failed"
    /\ req[p].g.follows.email = req[p].email

\* C12: an issue whose delivery fails after its upsert is answered 500 and the
\* row it wrote stays; the next issue for the email gets past the subscribed
\* check and leaves the row of its own code and expiry in its place.
C12_FailedDeliveryKeepsRow ==
    [][\A p \in Procs :
          /\ (req[p].g.alone /\ req[p].pc = "send" /\ Answers(p)
                  /\ last'.resp # "CodeSent")
                => /\ last'.resp = "Failed"
                   /\ PendingOf(pending', req[p].email) = {OwnRow(req[p])}
                   /\ req[p].otpHash.digest = req[p].otp
          /\ (IssuesAfterFailed(p) /\ Answers(p))
                => /\ last'.resp \in {"CodeSent", "Failed"}
                   /\ PendingOf(pending', req[p].email) = {OwnRow(req[p])}
                   /\ req[p].otpHash.digest = req[p].otp]_vars

\* The issue after a failed delivery has replaced the row that was left by a
\* row for another code.
C12_Witness ==
    \E p \in Procs :
        /\ IssuesAfterFailed(p)
        /\ req[p].pc = "send"
        /\ PreRows(p) # {}
        /\ \A r \in PreRows(p) : r.otp_hash.digest = req[p].g.follows.otp
        /\ req[p].otp # req[p].g.follows.otp
        /\ PendingOf(pending, req[p].email) = {OwnRow(req[p])}

\* A confirm that runs alone and arrived right after the same confirm had
\* been answered 200.
ConfirmsAgainAfterVerified(p) ==
    /\ req[p].g.alone
    /\ req[p].op = "verify"
    /\ req[p].g.follows.op = "verify"
    /\ req[p].g.follows.resp = "Verified"
    /\ req[p].g.follows.email = req[p].email
    /\ req[p].g.follows.otp = req[p].otp

\* C13: confirm(E, code) repeated after it has succeeded is answered
\* NoPendingVerification and leaves both tables as they were.
C13_SingleUse ==
    [][\A p \in Procs :
          (ConfirmsAgainAfterVerified(p) /\ Answers(p))
              => /\ last'.resp = "NoPendingVerification"
                 /\ pending' = req[p].g.pre
                 /\ subscribers' = req[p].g.preSub]_vars

\* The repeated confirm is in flight: the email is subscribed and its record
\* is gone.
C13_Witness ==
    \E p \in Procs :
        /\ ConfirmsAgainAfterVerified(p)
        /\ req[p].pc = "select"
        /\ PreSubscribed(p) # {}
        /\ PreRows(p) = {}

\* The integers from 100000 through 999999 that the entropy source can offer.
ClaimedCodes == {n \in EntropySample : 100000 <= n /\ n <= 999999}

\* C15 as stated: the code generated is a string of six decimal digits, and
\* where the handler is about to draw a code every integer from 100000
\* through 999999 is a possible draw.
C15_CodeSpace ==
    \A p \in Procs :
        /\ req[p].pc = "upsert"
              => /\ Len(req[p].otp) = 6
                 /\ \A i \in 1..Len(req[p].otp) : \E d \in DOMAIN Digits : Digits[d] = req[p].otp[i]
        /\ req[p].pc = "hash"
              => \A n \in ClaimedCodes : n \in randomInt(RandomIntMin, RandomIntMax)

\* Slot p's issue takes a step.
IssueStep(p) == req[p].op = "subscribe" /\ req'[p].pc # req[p].pc

\* C19: a step of issue(E1) leaves every Subscriber row alone, adds or changes
\* no pending row of another email, and removes a pending row of another
\* email only in its purge and only when the row's expires_at is in the past;
\* after the purge no row is left that a second purge would remove.
C19_IssueLeavesOthers ==
    [][\A p \in Procs :
          IssueStep(p)
              => /\ subscribers' = subscribers
                 /\ \A r \in pending' : r.email # req[p].email => r \in pending
                 /\ \A r \in pending \ pending' :
                       r.email # req[p].email
                           => req[p].pc = "purge" /\ r.expires_at < now
                 /\ req[p].pc = "purge"
                       => /\ \A r \in pending' : ~(r.expires_at < now)
                          /\ PurgeExpired(pending', now) = pending']_vars

\* The purge of an issue has removed the expired row of another email.
C19_Witness ==
    \E p \in Procs :
        /\ req[p].g.alone
        /\ req[p].op = "subscribe"
        /\ req[p].pc = "checkSub"
        /\ \E r \in req[p].g.pre :
              /\ r.email # req[p].email
              /\ r.expires_at < now
              /\ r \notin pending

\* A confirm that runs alone with the code hashed in the unexpired pending
\* record of its email: the hash matches.
ConfirmsMatching(p) ==
    /\ req[p].g.alone
    /\ req[p].op = "verify"
    /\ PreRows(p) # {}
    /\ \A r \in PreRows(p) : r.otp_hash.digest = req[p].otp

\* A confirm that runs alone and arrived right after the same confirm, whose
\* code matched, had been answered 500.
ConfirmsAgainAfterFault(p) ==
    /\ ConfirmsMatching(p)
    /\ req[p].g.follows.op = "verify"
    /\ req[p].g.follows.resp = "VerifyFailed"
    /\ req[p].g.follows.email = req[p].email
    /\ req[p].g.follows.otp = req[p].otp
    /\ req[p].g.follows.pre = PreRows(p)

\* C16: a confirm whose DELETE, INSERT or COMMIT is rejected after the hash
\* matched is answered 500 with both tables as the confirm found them; the
\* same confirm repeated in the validity window is answered 200 (E subscribed,
\* no pending record) unless the store rejects a statement again.
C16_FaultRollsBack ==
    [][\A p \in Procs :
          /\ (ConfirmsMatching(p) /\ req[p].pc \in {"delete", "insert", "commit"}
                  /\ Answers(p) /\ last'.resp # "Verified")
                => /\ last'.resp = "VerifyFailed"
                   /\ pending' = req[p].g.pre
                   /\ subscribers' = req[p].g.preSub
          /\ (ConfirmsAgainAfterFault(p) /\ Answers(p)
                  /\ \A r \in PreRows(p) : now <= r.expires_at)
                => /\ last'.resp \in {"Verified", "VerifyFailed"}
                   /\ last'.resp = "Verified"
                         => /\ SubscribersOf(subscribers', req[p].email) # {}
                            /\ PendingOf(pending', req[p].email) = {}
                   /\ last'.resp = "VerifyFailed"
                         => pending' = req[p].g.pre /\ subscribers' = req[p].g.preSub]_vars

\* The confirm repeated after a rejected INSERT or COMMIT has reached its own
\* COMMIT, about to subscribe the email.
C16_Witness ==
    \E p \in Procs :
        /\ ConfirmsAgainAfterFault(p)
        /\ req[p].pc = "commit"
        /\ req[p].insRows # {}
        /\ req[p].delRows = PreRows(p)
        /\ PreSubscribed(p) = {}

\* The cases in which the specification has checkHuman skip the provider.
ClaimedSkip ==
    \/ ~env.secretKey
    \/ env.nodeEnv # "production" /\ captcha.token = "test-token"

\* The answers of the provider the specification counts as human.
ClaimedHuman ==
    /\ ~captcha.outcome.error
    /\ captcha.outcome.success = "true"
    /\ ~captcha.outcome.score.defined \/ captcha.outcome.score.tenths >= 5

\* C18: verifyRecaptcha lets the request pass without asking the provider when
\* no secret key is configured, and outside production when the token is the
\* test marker; in every other case (so always in production with a key) it
\* asks the provider and lets the request pass exactly when the answer reports
\* success with no score or a score of at least 0.5.
C18_CheckHuman ==
    captcha.token # "none"
        => /\ ClaimedSkip => Truthy(captcha.result) /\ ~captcha.called
           /\ ~ClaimedSkip => captcha.called /\ (Truthy(captcha.result) <=> ClaimedHuman)

\* In production with a key configured the test marker has been sent, the
\* provider has been asked and its failure has turned the request away.
C18_Witness ==
    /\ env = ProductionEnv
    /\ captcha.token = "test-token"
    /\ captcha.called
    /\ ~captcha.outcome.error
    /\ captcha.outcome.success = "false"
    /\ ~Truthy(captcha.result)

\* The budgets and windows the specification states, per bucket.
ClaimedBudget(b) ==
    CASE b = "subscribe" -> 5
      [] b = "verify" -> 10
      [] OTHER -> 100

ClaimedWindow(b) ==
    CASE b = "subscribe" -> 60 * 60 * 1000
      [] OTHER -> 15 * 60 * 1000

\* A step in which a request passes through a limiter.
RequestStep == limiter' # limiter /\ now' = now

\* The window of a record is running.
Running(rec) == rec.totalHits > 0 /\ rec.resetTime > now

\* C14: for each client and bucket, a request is let through exactly while the
\* count of the running window, this request included, is within the budget of
\* the bucket (5 per hour for subscribe, 10 per 15 minutes for verify, 100 per
\* 15 minutes for the rest), so no window lets more than the budget through and
\* every request beyond it is answered RateLimited until the window ends; the
\* count of a running window never decreases; and the first request at or
\* after the end of a window starts a new window of the full length with count
\* one and is let through.
C14_Budgets ==
    [][/\ RequestStep =>
            LET b == served'.bucket
                c == served'.client
                old == limiter[b][c]
                new == limiter'[b][c]
            IN  /\ Running(old) => new.totalHits = old.totalHits + 1
                                   /\ new.resetTime = old.resetTime
                /\ ~Running(old) => new.totalHits = 1
                                    /\ new.resetTime = now + ClaimedWindow(b)
                                    /\ reply' # "RateLimited"
                /\ reply' = "RateLimited" <=> new.totalHits > ClaimedBudget(b)
       /\ \A b \in Buckets : \A c \in Clients :
            Running(limiter[b][c]) /\ limiter[b][c].resetTime > now'
                => limiter'[b][c].totalHits >= limiter[b][c].totalHits
      ]_vars

\* One millisecond before the end of the hour a client that has used up the
\* five subscriptions of its window is still turned away.
C14_Witness ==
    /\ served.bucket = "subscribe"
    /\ reply = "RateLimited"
    /\ limiter["subscribe"][served.client].totalHits = 6
    /\ limiter["subscribe"][served.client].resetTime = now + 1

\* C20: a request counts against the record of its own bucket and client and
\* against no other record, and it is answered RateLimited only when the count
\* of that record exceeds the budget of the bucket; so a client that has
\* exhausted one bucket is not turned away in another bucket, and another
\* client is not turned away in the same bucket.
C20_Independent ==
    [][RequestStep =>
            /\ \A b \in Buckets : \A c \in Clients :
                 <<b, c>> # <<served'.bucket, served'.client>>
                     => limiter'[b][c] = limiter[b][c]
            /\ reply' = "RateLimited" =>
                 /\ Running(limiter[served'.bucket][served'.client])
                 /\ limiter[served'.bucket][served'.client].totalHits
                        >= ClaimedBudget(served'.bucket)
      ]_vars

\* A record is over its budget and its window is running, and the last
\* request, of another client or to another bucket, has been let through.
C20_Witness ==
    /\ \E b \in Buckets : \E c \in Clients :
         /\ <<b, c>> # <<served.bucket, served.client>>
         /\ Running(limiter[b][c])
         /\ limiter[b][c].totalHits > ClaimedBudget(b)
    /\ served.bucket # "none"
    /\ reply # "RateLimited"

\* C17: a step in which POST /api/subscribe answers InvalidEmail, RateLimited
\* or BotSuspected, or POST /api/verify answers InvalidInput or RateLimited,
\* leaves pending_verifications and subscribers as they were and leaves no
\* handler running: no code is drawn and no mail is handed to the provider.
C17_RejectedTouchesNothing ==
    [][limiter' # limiter /\ reply' # "none" =>
            /\ reply' \in (IF served'.bucket = "subscribe"
                           THEN {"InvalidEmail", "RateLimited", "BotSuspected"}
                           ELSE {"InvalidInput", "RateLimited"})
            /\ pending' = pending
            /\ subscribers' = subscribers
            /\ idSeq' = idSeq
            /\ \A p \in Procs : req'[p] = Idle
            /\ last' = last
            /\ verified' = verified
      ]_vars

\* A confirm is turned away by the limiter while a record awaits its code.
C17_Witness ==
    /\ pending # {}
    /\ served.bucket = "verify"
    /\ reply = "RateLimited"
    /\ limiter["verify"][served.client].totalHits = 11

\* A key in normalized form: no capital letter, no whitespace at either end.
IsNormalKey(e) ==
    /\ e # <<>>
    /\ \A i \in 1..Len(e) : e[i] \notin {"A", "B", "X"}
    /\ e[1] \notin Whitespace
    /\ e[Len(e)] \notin Whitespace

\* Two spellings of one address: they differ in letter case and in the
\* whitespace around them at most.
SameAddress(e1, e2) ==
    /\ Len(Trim(e1)) = Len(Trim(e2))
    /\ \A i \in 1..Len(Trim(e1)) : ToLowerChar(Trim(e1)[i]) = ToLowerChar(Trim(e2)[i])

\* The email keys the two tables hold.
StoredKeys == {r.email : r \in pending} \cup {r.email : r \in subscribers}

\* C21: every email key in pending_verifications and in subscribers is in
\* normalized form (no capitals, no whitespace around it), every request in
\* flight works on a normalized key, and an address has one key: two rows of a
\* table, or a request and a row, that spell the same address up to letter case
\* and surrounding whitespace have the same key.
C21_NormalizedKeys ==
    /\ \A e \in StoredKeys : IsNormalKey(e)
    /\ \A p \in Procs : InFlight(p) => IsNormalKey(req[p].email)
    /\ \A e1 \in StoredKeys : \A e2 \in StoredKeys : SameAddress(e1, e2) => e1 = e2
    /\ \A p \in Procs : \A e \in StoredKeys :
         InFlight(p) /\ SameAddress(req[p].email, e) => req[p].email = e

\* An address issued as " A@B.c " has been confirmed as "a@b.c".
C21_Witness ==
    /\ verified # <<>>
    /\ \E r \in subscribers : r.email = <<"a", "@", "b", ".", "c">>

\* The row a confirm in flight has read and compared its code against.
ComparedRow(p) ==
    [email |-> req[p].email, otp_hash |-> req[p].otpHash, expires_at |-> req[p].expiresAt]

\* C24: the COMMIT of a successful confirm removes from pending_verifications
\* no row but the one whose hash the confirm compared the code against; a row
\* that a concurrent issue has put in its place since the SELECT stays.
C24_DeletesComparedRowOnly ==
    [][\A p \in Procs :
          req[p].pc = "commit" /\ req'[p].pc = "idle"
              => (pending \ pending') \subseteq {ComparedRow(p)}
      ]_vars

\* The confirms in flight.
ConfirmsInFlight == {p \in Procs : InFlight(p) /\ req[p].op = "verify"}

\* C26: the clients checked out of the pool and the transactions open are
\* those of the confirms in flight, one each, so none is held when no request
\* is in flight; and the step that answers a confirm, whatever the answer
\* (no pending verification, expired, invalid code, success, store fault),
\* ends one transaction and gives one client back.
C26_ConnectionsReleased ==
    /\ [](/\ pool.checkedOut = Cardinality(ConfirmsInFlight)
          /\ pool.openTx = Cardinality(ConfirmsInFlight)
          /\ Quiet => pool = [checkedOut |-> 0, openTx |-> 0])
    /\ [][\A p \in Procs :
            req[p].op = "verify" /\ Answers(p)
                => /\ pool'.checkedOut = pool.checkedOut - 1
                   /\ pool'.openTx = pool.openTx - 1
         ]_vars

\* A confirm has succeeded, a later one has been answered 500 after a fault of
\* the store, and no client is checked out.
C26_Witness ==
    /\ verified # <<>>
    /\ last.op = "verify"
    /\ last.resp = "VerifyFailed"
    /\ Quiet
    /\ pool.checkedOut = 0

\* C25: when two requests to /api/subscribe for one email have both answered
\* 200, the code in the mail the provider accepted last is the code the
\* pending row of the email verifies.
C25_LastMailVerifies ==
    Quiet /\ Len(mail) = 2 /\ mail[1].email = mail[2].email
        => \E r \in pending :
              /\ r.email = mail[2].email
              /\ bcryptCompare(mail[2].otp, r.otp_hash)

\* The bucket that counts the request that has arrived in this step.
ArrivedAt ==
    IF reply' \in {"InvalidEmail", "BotSuspected"} THEN "subscribe"
    ELSE IF reply' = "InvalidInput" THEN "verify"
    ELSE IF \E p \in Procs : ~InFlight(p) /\ req'[p].op = "subscribe" THEN "subscribe"
    ELSE "verify"

\* C23: on /api/subscribe and /api/verify the limiter runs before the handler:
\* a request that is answered InvalidEmail, BotSuspected or InvalidInput, like
\* one that reaches the store, has been counted as one more request of its
\* client in the bucket of its route; and a request of a client whose running
\* window already holds the budget is answered RateLimited and reaches neither
\* the validation nor the store, whatever its body.
C23_LimitBeforeValidation ==
    [][/\ now' = now /\ (started' # started
                          \/ (reply' # reply /\ reply' \in {"InvalidEmail", "BotSuspected",
                                                           "InvalidInput"}))
          => /\ served'.bucket = ArrivedAt
             /\ served'.client \in Clients
             /\ LET old == limiter[served'.bucket][served'.client]
                    new == limiter'[served'.bucket][served'.client]
                IN  new.totalHits = IF Running(old) THEN old.totalHits + 1 ELSE 1
       /\ RequestStep
            /\ Running(limiter[served'.bucket][served'.client])
            /\ limiter[served'.bucket][served'.client].totalHits
                   >= ClaimedBudget(served'.bucket)
          => reply' = "RateLimited" /\ started' = started /\ req' = req
      ]_vars

\* The request that used up the last of the five subscriptions of its client's
\* window had a malformed address.
C23_Witness ==
    /\ served.bucket = "subscribe"
    /\ reply = "InvalidEmail"
    /\ limiter["subscribe"][served.client].totalHits = 5

\* C22: a request to /api/subscribe that waits for a mail provider that never
\* answers is answered in the end, with the 500 of a failed delivery.
C22_DeliveryTimesOut ==
    \A p \in Procs :
        (req[p].pc = "send")
            ~> (req[p].pc = "idle" /\ last.op = "subscribe" /\ last.resp = "Failed")

\* A request has been answered 500 ten seconds after it called the provider,
\* and the record it wrote is still there.
C22_Witness ==
    /\ Quiet
    /\ last.op = "subscribe"
    /\ last.resp = "Failed"
    /\ now = (last.expiresAt - OtpTtlMs) + 10000
    /\ \E r \in pending : r.email = last.email /\ r.expires_at = last.expiresAt

====
